---- MODULE Spec2Model ----
(***************************************************************************)
(* A model of utils/oscal: the component definition generator              *)
(* (build_cd_for_product.py), the parameter extractor                      *)
(* (params_extractor.py) and the rules transformer (rules_transformer.py). *)
(*                                                                         *)
(* Text is modelled by what the code does with it.  A control id, a label, *)
(* a policy name and a note are only stored and compared: they are TLA+    *)
(* strings, "" being Python's empty (falsy) string.  A text the code cuts  *)
(* or rewrites (a requested rule id, a file name, a description) is a      *)
(* sequence of symbols: each symbol is either one of the markers the code  *)
(* looks for ("=", ".var", "<p>", "</p>", "\n", " ") or a run of other     *)
(* characters.                                                             *)
(***************************************************************************)
EXTENDS Integers, Sequences, FiniteSets, TLC

VARIABLES
    \* ---- ComponentDefinitionGenerator (build_cd_for_product.py)
    catalog,                  \* the resolved profile catalog: a sequence of controls
    policies,                 \* ControlsManager.policies: policy id -> its controls
    control,                  \* the --control argument (policy id asked for)
    gen_pc,                   \* where main() is
    profile_controls,         \* self.profile_controls
    controls_by_label,        \* self.controls_by_label
    policy_id,                \* self.policy_id
    implemented_requirements, \* ci.implemented_requirements
    components,               \* component_definition.components (titles)
    warnings,                 \* logger.warning calls of get_profile_control_id
    \* ---- ParameterExtractor (params_extractor.py)
    var_files,                \* the files find_var_files yields, in order
    params_by_id,             \* self._params_by_id: the ParamInfo objects
    ext_pc,                   \* where the extractor's caller is
    lookup,                   \* outcome of the last get_params_for_id
    \* ---- RulesTransformer (rules_transformer.py)
    last_load,                \* the last load() call and its outcome
    tr_pc,                    \* where transform()'s caller is
    rule_objs,                \* the list handed to transform()
    rule_properties,          \* what transform() returned for it
    transform_results         \* the lists the last two transform() calls returned,
                              \* no load() call being between them

gen_vars == <<catalog, policies, control, gen_pc, profile_controls,
              controls_by_label, policy_id, implemented_requirements,
              components, warnings>>
ext_vars == <<var_files, params_by_id, ext_pc, lookup>>
load_vars == <<last_load>>
tr_vars == <<tr_pc, rule_objs, rule_properties, transform_results>>
vars == <<gen_vars, ext_vars, load_vars, tr_vars>>

\* Python's None, as returned by get_profile_control_id and the _from_* lookups.
None == "<None>"

\* Python truthiness of an optional string: None and "" are false.
Truthy(v) == v # None /\ v # ""

\* dict[k] = v
Put(f, k, v) == [x \in (DOMAIN f) \cup {k} |-> IF x = k THEN v ELSE f[x]]

\* dict()
EmptyDict == [x \in {} |-> x]

\* The sequences over S of length at most n.
SeqUpTo(S, n) == UNION {[1..k -> S] : k \in 0..n}

(***************************************************************************)
(* ComponentDefinitionGenerator                                            *)
(***************************************************************************)

\* Bounds of the generator's inputs.
MaxNodes == 3
MaxPolicyControls == 2

\* Ids of the catalog's nodes, handed out in document order.
IdNames == <<"ac-1", "ac-2", "ac-3", "ac-4", "ac-5", "ac-6">>

\* Labels a node may carry: none, a plain label, and a label that spells the
\* id another node may have.
Labels == {"", "a.", "ac-2"}

\* The forests of n nodes (controls with nested parts, or parts with nested
\* parts) whose ids are IdNames[first], IdNames[first + 1], ... in document order.
RECURSIVE Forest(_, _)
Forest(n, first) ==
    IF n = 0 THEN {<<>>}
    ELSE UNION {
        { <<[id |-> IdNames[first], label |-> l, parts |-> ps]>> \o rest :
            l \in Labels, ps \in Forest(k - 1, first + 1),
            rest \in Forest(n - k, first + k) } : k \in 1..n }

Catalogs == UNION {Forest(n, 1) : n \in 0..MaxNodes}

\* The controls a policy file may list: [id, notes].
PolicyControlIds == {"ac-1", "ac-2", "zz-99"}
Notes == {"impl note", "other note"}
PolicyControls == [id : PolicyControlIds, notes : Notes]

\* The policy the controls directory defines, and the ids a caller may ask for.
KnownPolicy == "nist"
PolicyArgs == {"nist", "unknown"}

\* ControlInterface.get_label: the node's label property, "" when it has none.
get_label(node) == node.label

\* Mutant of handle_parts: a part's label is stored but its id is not added to
\* profile_controls.
RECURSIVE handle_parts_LabelOnly(_, _)
handle_parts_LabelOnly(node, acc) ==
    LET RECURSIVE Loop(_, _)
        Loop(parts, a) ==
            IF parts = <<>> THEN a
            ELSE LET part == Head(parts)
                     label == get_label(part)
                     a1 == [ids |-> a.ids,
                            by_label |-> IF label # ""
                                         THEN Put(a.by_label, label, part.id)
                                         ELSE a.by_label]
                 IN Loop(Tail(parts), handle_parts_LabelOnly(part, a1))
    IN IF node.parts # <<>> THEN Loop(node.parts, acc) ELSE acc

\* handle_parts: every part is added, labelled or not, and recursed into.
RECURSIVE handle_parts(_, _)
handle_parts(node, acc) ==
    LET RECURSIVE Loop(_, _)
        Loop(parts, a) ==
            IF parts = <<>> THEN a
            ELSE LET part == Head(parts)
                     label == get_label(part)
                     a1 == [ids |-> a.ids \cup {part.id},
                            by_label |-> IF label # ""
                                         THEN Put(a.by_label, label, part.id)
                                         ELSE a.by_label]
                 IN Loop(Tail(parts), handle_parts(part, a1))
    IN IF node.parts # <<>> THEN Loop(node.parts, acc) ELSE acc

\* resolve_profile_to_controls: the loop over get_all_controls_from_dict.
\* handle_parts is called inside "if label:", so only for a labelled control.
RECURSIVE resolve_profile_to_controls(_, _)
resolve_profile_to_controls(controls, acc) ==
    IF controls = <<>> THEN acc
    ELSE LET c == Head(controls)
             label == get_label(c)
             a1 == [ids |-> acc.ids \cup {c.id}, by_label |-> acc.by_label]
             a2 == IF label # ""
                   THEN handle_parts(c, [ids |-> a1.ids,
                                         by_label |-> Put(a1.by_label, label, c.id)])
                   ELSE a1
         IN resolve_profile_to_controls(Tail(controls), a2)

\* get_profile_control_id: label first, then id, else None (with a warning).
get_profile_control_id(control_name, by_label, ids) ==
    IF control_name \in DOMAIN by_label THEN by_label[control_name]
    ELSE IF control_name \in ids THEN control_name
    ELSE None

\* No ImplementedRequirement: what create_implemented_requirement returns as None.
NoRequirement == [control_id |-> None, description |-> None]

\* create_implemented_requirement: the record, or None.
create_implemented_requirement(c, by_label, ids) ==
    LET control_id == get_profile_control_id(c.id, by_label, ids)
    IN IF Truthy(control_id)
       THEN [control_id |-> control_id, description |-> c.notes]
       ELSE NoRequirement

\* Mutant of get_control_implementation: the loop ends at the first control that
\* does not resolve, instead of skipping it.
RECURSIVE get_control_implementation_StopsAtUnresolved(_, _, _)
get_control_implementation_StopsAtUnresolved(controls, by_label, ids) ==
    IF controls = <<>> THEN <<>>
    ELSE LET implemented_req ==
                 create_implemented_requirement(Head(controls), by_label, ids)
         IN IF implemented_req # NoRequirement
            THEN <<implemented_req>>
                 \o get_control_implementation_StopsAtUnresolved(Tail(controls), by_label, ids)
            ELSE <<>>

\* get_control_implementation: the loop over get_all_controls(policy_id).
RECURSIVE get_control_implementation(_, _, _)
get_control_implementation(controls, by_label, ids) ==
    IF controls = <<>> THEN <<>>
    ELSE LET implemented_req ==
                 create_implemented_requirement(Head(controls), by_label, ids)
             rest == get_control_implementation(Tail(controls), by_label, ids)
         IN IF implemented_req # NoRequirement THEN <<implemented_req>> \o rest ELSE rest

\* The warnings get_profile_control_id logs during that loop, in order.
RECURSIVE logged_warnings(_, _, _)
logged_warnings(controls, by_label, ids) ==
    IF controls = <<>> THEN <<>>
    ELSE LET c == Head(controls)
             rest == logged_warnings(Tail(controls), by_label, ids)
         IN IF get_profile_control_id(c.id, by_label, ids) = None
            THEN <<c.id>> \o rest ELSE rest

\* Mutant of get_controls_mgr: the policy is not looked up in the loaded policies.
get_controls_mgr_NoCheck(c, loaded_policies) == TRUE

\* get_controls_mgr: whether the policy check lets the constructor go on.
get_controls_mgr(c, loaded_policies) == c \in DOMAIN loaded_policies

GenIdle ==
    /\ catalog = <<>> /\ policies = EmptyDict /\ control = "" /\ gen_pc = "off"
    /\ profile_controls = {} /\ controls_by_label = EmptyDict /\ policy_id = ""
    /\ implemented_requirements = <<>> /\ components = <<>> /\ warnings = <<>>

GenInit ==
    /\ catalog \in Catalogs
    /\ policies \in [{KnownPolicy} -> SeqUpTo(PolicyControls, MaxPolicyControls)]
    /\ control \in PolicyArgs
    /\ gen_pc = "main"
    /\ profile_controls = {} /\ controls_by_label = EmptyDict /\ policy_id = ""
    /\ implemented_requirements = <<>> /\ components = <<>> /\ warnings = <<>>

\* ComponentDefinitionGenerator.__init__: resolve the profile, then check the
\* policy; a ValueError from get_controls_mgr leaves main() (no create_cd).
Construct ==
    /\ gen_pc = "main"
    /\ \E idx \in {resolve_profile_to_controls(catalog,
                                                [ids |-> {}, by_label |-> EmptyDict])} :
          /\ profile_controls' = idx.ids
          /\ controls_by_label' = idx.by_label
    /\ policy_id' = control
    /\ gen_pc' = IF get_controls_mgr(control, policies) THEN "constructed" ELSE "init_error"
    /\ UNCHANGED <<catalog, policies, control, implemented_requirements,
                   components, warnings>>
    /\ UNCHANGED <<ext_vars, load_vars, tr_vars>>

\* create_cd on the constructed generator; get_all_controls raises for a policy
\* the manager does not hold.
CreateCd ==
    /\ gen_pc = "constructed"
    /\ IF policy_id \in DOMAIN policies
       THEN \E reqs \in {get_control_implementation(policies[policy_id],
                                                     controls_by_label, profile_controls)} :
               /\ implemented_requirements' = reqs
               /\ warnings' = logged_warnings(policies[policy_id],
                                              controls_by_label, profile_controls)
               /\ components' = IF reqs # <<>> THEN <<"product">> ELSE <<>>
               /\ gen_pc' = "written"
       ELSE /\ gen_pc' = "create_error"
            /\ UNCHANGED <<implemented_requirements, warnings, components>>
    /\ UNCHANGED <<catalog, policies, control, profile_controls,
                   controls_by_label, policy_id>>
    /\ UNCHANGED <<ext_vars, load_vars, tr_vars>>

(***************************************************************************)
(* Text helpers                                                            *)
(***************************************************************************)

\* str.replace(old, new) for a one-symbol old; new is a text (maybe empty).
RECURSIVE Replace(_, _, _)
Replace(s, old, new) ==
    IF s = <<>> THEN <<>>
    ELSE (IF Head(s) = old THEN new ELSE <<Head(s)>>) \o Replace(Tail(s), old, new)

Whitespace == {" ", "\n"}

\* str.strip(): leading and trailing whitespace removed.
RECURSIVE LStrip(_)
LStrip(s) == IF s # <<>> /\ Head(s) \in Whitespace THEN LStrip(Tail(s)) ELSE s

RECURSIVE RStrip(_)
RStrip(s) ==
    IF s # <<>> /\ s[Len(s)] \in Whitespace THEN RStrip(SubSeq(s, 1, Len(s) - 1)) ELSE s

Strip(s) == RStrip(LStrip(s))

\* str.split(sep): the texts between the occurrences of sep (always at least one).
RECURSIVE Split(_, _)
Split(s, sep) ==
    IF s = <<>> THEN << <<>> >>
    ELSE LET rest == Split(Tail(s), sep)
         IN IF Head(s) = sep THEN << <<>> >> \o rest
            ELSE << <<Head(s)>> \o Head(rest) >> \o Tail(rest)

\* str.endswith(suffix) for a one-symbol suffix.
EndsWith(s, suffix) == s # <<>> /\ s[Len(s)] = suffix

\* A dict with ordered items is a sequence of <<key, value>> pairs, keys distinct.
Keys(d) == {d[i][1] : i \in DOMAIN d}
Get(d, k) == LET i == CHOOSE j \in DOMAIN d : d[j][1] = k IN d[i][2]

\* dict.get(k): the value, or None (<<>>).
DictGet(d, k) == IF k \in Keys(d) THEN Get(d, k) ELSE <<>>

\* The injective sequences over S of length at most n.
DistinctSeqUpTo(S, n) ==
    {q \in SeqUpTo(S, n) : \A i, j \in DOMAIN q : q[i] = q[j] => i = j}

(***************************************************************************)
(* ParameterExtractor                                                      *)
(***************************************************************************)

\* Bound of the extractor's input: files under the benchmark root.
MaxFiles == 2

VAR_FILE_EXTENSION == ".var"

\* A file's status is what ssg.build_yaml.Value.from_yaml does with it: "ok"
\* parses it, "invalid" raises ValueError (the loader rejects its keys),
\* "unreadable" raises PermissionError from open().

FullOptions == << <<"default", <<"foo">> >>, <<"alt", <<"bar">> >> >>
OtherOptions == << <<"default", <<"10">> >>, <<"strict", <<"5">> >> >>
NoDefaultOptions == << <<"alt", <<"bar">> >> >>

\* The files a benchmark root may hold: [name, status, description, options].
BenchmarkFiles == {
    [name |-> <<"var_x", ".var">>, status |-> "ok",
     description |-> <<"desc">>, options |-> FullOptions],
    [name |-> <<"var_t", ".var">>, status |-> "ok",
     description |-> <<" ", "line one", "\n", "line two", "\n">>, options |-> OtherOptions],
    [name |-> <<"sshd", ".var", "iant", ".var">>, status |-> "ok",
     description |-> <<"desc">>, options |-> FullOptions],
    [name |-> <<"var_n", ".var">>, status |-> "ok",
     description |-> <<"desc">>, options |-> NoDefaultOptions],
    [name |-> <<"var_i", ".var">>, status |-> "invalid",
     description |-> <<>>, options |-> <<>>],
    [name |-> <<"var_u", ".var">>, status |-> "unreadable",
     description |-> <<>>, options |-> <<>>],
    [name |-> <<"rule", ".yml">>, status |-> "ok",
     description |-> <<>>, options |-> <<>>] }

\* find_var_files: the files whose name ends with the extension, in walk order.
find_var_files(files) ==
    SelectSeq(files, LAMBDA f : EndsWith(f.name, VAR_FILE_EXTENSION))

\* ssg.utils.required_key: the value, or ValueError.
HasKey(d, k) == k \in Keys(d)
required_key(d, k) == IF HasKey(d, k) THEN Get(d, k) ELSE <<"ValueError">>

\* The parameter id: every occurrence of the extension is replaced by "".
parameter_id(name) == Replace(name, VAR_FILE_EXTENSION, <<>>)

\* ParamInfo.__init__, set_default_value and set_options as one object.
ParamInfo(param_id, description, default, options) ==
    [id |-> param_id, description |-> description, value |-> default,
     options |-> options]

\* ParameterExtractor.__init__: the loop over find_var_files.  A ValueError is
\* caught (the file is skipped); any other exception leaves the constructor.
RECURSIVE ParameterExtractor(_, _)
ParameterExtractor(files, store) ==
    IF files = <<>> THEN [raised |-> "none", params_by_id |-> store]
    ELSE LET file == Head(files) IN
         CASE file.status = "unreadable" ->
                  [raised |-> "PermissionError", params_by_id |-> store]
           [] file.status = "invalid" -> ParameterExtractor(Tail(files), store)
           [] OTHER ->
                  IF ~HasKey(file.options, "default")
                  THEN ParameterExtractor(Tail(files), store)
                  ELSE LET pid == parameter_id(file.name)
                           param_obj ==
                               ParamInfo(pid,
                                         Strip(Replace(file.description, "\n", <<" ">>)),
                                         required_key(file.options, "default"),
                                         file.options)
                       IN ParameterExtractor(Tail(files), Put(store, pid, param_obj))

\* No ParamInfo object.
NoParam == ParamInfo(<<>>, <<>>, <<>>, <<>>)

\* get_params_for_id: the stored object, or ValueError.
get_params_for_id(store, param_id) ==
    IF param_id \notin DOMAIN store
    THEN [raised |-> "ValueError", param |-> NoParam]
    ELSE [raised |-> "none", param |-> store[param_id]]

\* The ids a caller may ask the repository for.
QueryIds == {<<"var_x">>, <<"var_t">>, <<"sshd", ".var", "iant">>, <<"var_n">>,
             <<"missing">>}

NoLookup == [param_id |-> <<>>, raised |-> "none", param |-> NoParam]

ExtIdle ==
    /\ var_files = <<>> /\ ext_pc = "off" /\ lookup = NoLookup

ExtInit ==
    /\ var_files \in DistinctSeqUpTo(BenchmarkFiles, MaxFiles)
    /\ params_by_id = EmptyDict
    /\ ext_pc = "new"
    /\ lookup = NoLookup

\* ParameterExtractor(root, env_yaml)
BuildExtractor ==
    /\ ext_pc = "new"
    /\ LET r == ParameterExtractor(find_var_files(var_files), EmptyDict)
       IN /\ params_by_id' = r.params_by_id
          /\ ext_pc' = IF r.raised = "none" THEN "built" ELSE "aborted"
    /\ UNCHANGED <<var_files, lookup>>
    /\ UNCHANGED <<gen_vars, load_vars, tr_vars>>

\* get_params_for_id(param_id) on the built extractor
GetParams ==
    /\ ext_pc = "built"
    /\ \E q \in QueryIds :
         LET r == get_params_for_id(params_by_id, q)
         IN lookup' = [param_id |-> q, raised |-> r.raised, param |-> r.param]
    /\ UNCHANGED <<var_files, params_by_id, ext_pc>>
    /\ UNCHANGED <<gen_vars, load_vars, tr_vars>>

(***************************************************************************)
(* RulesTransformer: load                                                  *)
(***************************************************************************)

\* Bound of load's input: entries in one requested list.
MaxRequest == 2

XCCDF_VARIABLE == "xccdf_variable"

\* The parameter files of the product the transformer is built for.
ProductVarFiles == <<
    [name |-> <<"var_x", ".var">>, status |-> "ok",
     description |-> <<"desc">>, options |-> FullOptions],
    [name |-> <<"var_t", ".var">>, status |-> "ok",
     description |-> <<"timeout">>, options |-> OtherOptions] >>

\* self.param_extractor._params_by_id once the extractor is built.
ProductParams == ParameterExtractor(find_var_files(ProductVarFiles), EmptyDict).params_by_id

\* self.rule_json: the precomputed index, rule id -> {"dir": ...}.
rule_json ==
    [r \in {<<"rule_a">>, <<"rule_c">>, <<"rule_m">>, <<"rule_p">>, <<"rule_e">>,
            <<"rule_u">>, <<"rule_i">>} |-> [dir |-> <<"build/">> \o r]]

\* self.rules_dirs_for_product: the live scan, rule id -> directory.
rules_dirs_for_product ==
    [r \in {<<"rule_b">>, <<"rule_c">>} |-> <<"product/">> \o r]

\* What ssg.build_yaml.Rule.from_yaml finds in a rule directory: "ok" parses the
\* rule.yml, "missing" raises FileNotFoundError, "invalid" raises ValueError (the
\* loader rejects the file), "unreadable" raises PermissionError from open().
\* template_vars is what get_template_vars returns for a templated rule.
RuleYaml(rule_dir) ==
    CASE rule_dir = <<"build/", "rule_a">> ->
             [status |-> "ok", description |-> <<"<p>", "text a", "\n", "more", "</p>", "\n">>,
              templated |-> TRUE,
              template_vars |-> << <<XCCDF_VARIABLE, <<"var_x">> >> >>]
      [] rule_dir = <<"product/", "rule_b">> ->
             [status |-> "ok", description |-> <<"text b">>,
              templated |-> TRUE,
              template_vars |-> << <<XCCDF_VARIABLE, <<"var_x">> >> >>]
      [] rule_dir = <<"build/", "rule_c">> ->
             [status |-> "ok", description |-> <<"text c">>,
              templated |-> TRUE,
              template_vars |-> << <<"name", <<"c">> >> >>]
      [] rule_dir = <<"product/", "rule_c">> ->
             [status |-> "ok", description |-> <<"text c of the product">>,
              templated |-> FALSE, template_vars |-> <<>>]
      [] rule_dir = <<"build/", "rule_p">> ->
             [status |-> "ok", description |-> <<"text p">>,
              templated |-> TRUE,
              template_vars |-> << <<XCCDF_VARIABLE, <<"var_q">> >> >>]
      [] rule_dir = <<"build/", "rule_e">> ->
             [status |-> "ok", description |-> <<"<p>", " ", "</p>", "\n">>,
              templated |-> FALSE, template_vars |-> <<>>]
      [] rule_dir = <<"build/", "rule_i">> ->
             [status |-> "invalid", description |-> <<>>,
              templated |-> FALSE, template_vars |-> <<>>]
      [] rule_dir = <<"build/", "rule_u">> ->
             [status |-> "unreadable", description |-> <<>>,
              templated |-> FALSE, template_vars |-> <<>>]
      [] OTHER ->
             [status |-> "missing", description |-> <<>>,
              templated |-> FALSE, template_vars |-> <<>>]

\* What a requested list may hold: rule ids and key=value entries.
Entries == {
    <<"rule_a">>, <<"rule_b">>, <<"rule_c">>, <<"rule_m">>, <<"rule_p">>,
    <<"rule_e">>, <<"rule_u">>, <<"rule_z">>,
    <<"var_x", "=", "custom">>, <<"var_x", "=", "a", "=", "b">> }

Requests == SeqUpTo(Entries, MaxRequest)

\* RuleInfo.__init__
RuleInfo(rule_id, rule_dir) ==
    [id |-> rule_id, description |-> <<>>, rule_dir |-> rule_dir, parameters |-> <<>>]

NoRule == RuleInfo(<<>>, <<>>)

\* _process_rule_ids: an entry that splits in two at "=" is an override.
RECURSIVE _process_rule_ids(_)
_process_rule_ids(rule_ids) ==
    IF rule_ids = <<>> THEN [processed_rule_ids |-> <<>>, params_values |-> EmptyDict]
    ELSE LET n == Len(rule_ids)
             before == _process_rule_ids(SubSeq(rule_ids, 1, n - 1))
             rule_id == rule_ids[n]
             parts == Split(rule_id, "=")
         IN IF Len(parts) = 2
            THEN [processed_rule_ids |-> before.processed_rule_ids,
                  params_values |-> Put(before.params_values, parts[1], parts[2])]
            ELSE [processed_rule_ids |-> Append(before.processed_rule_ids, rule_id),
                  params_values |-> before.params_values]

\* _from_rules_json: the indexed directory, or None (<<>>).
_from_rules_json(rule_id) ==
    IF rule_id \notin DOMAIN rule_json THEN <<>> ELSE rule_json[rule_id].dir

\* _from_product_dir: the scanned directory, or None (<<>>).
_from_product_dir(rule_id) ==
    IF rule_id \notin DOMAIN rules_dirs_for_product THEN <<>>
    ELSE rules_dirs_for_product[rule_id]

\* Mutant of _new_rule_obj: the scan is asked first, then the index.
_new_rule_obj_ScanFirst(rule_id) ==
    LET first == _from_product_dir(rule_id)
        rule_dir == IF first = <<>> THEN _from_rules_json(rule_id) ELSE first
    IN IF rule_dir = <<>>
       THEN [raised |-> "ValueError", rule_obj |-> NoRule]
       ELSE [raised |-> "none", rule_obj |-> RuleInfo(rule_id, rule_dir)]

\* _new_rule_obj: index first, then the scan, else ValueError.
_new_rule_obj(rule_id) ==
    LET first == _from_rules_json(rule_id)
        rule_dir == IF first = <<>> THEN _from_product_dir(rule_id) ELSE first
    IN IF rule_dir = <<>>
       THEN [raised |-> "ValueError", rule_obj |-> NoRule]
       ELSE [raised |-> "none", rule_obj |-> RuleInfo(rule_id, rule_dir)]

\* _get_params_ids: attach the rule's xccdf variable; an override in
\* param_values is written into the repository's own ParamInfo object.
\* A parameter of a RuleInfo is a reference to that object: its id.
_get_params_ids(rule_yaml, rule_obj, param_values, store) ==
    IF ~rule_yaml.templated
    THEN [raised |-> "none", rule_obj |-> rule_obj, params_by_id |-> store]
    ELSE LET xccdf_variable == DictGet(rule_yaml.template_vars, XCCDF_VARIABLE) IN
         IF xccdf_variable = <<>>
         THEN [raised |-> "none", rule_obj |-> rule_obj, params_by_id |-> store]
         ELSE LET param_id == xccdf_variable
                  got == get_params_for_id(store, param_id)
              IN IF got.raised # "none"
                 THEN [raised |-> got.raised, rule_obj |-> rule_obj, params_by_id |-> store]
                 ELSE [raised |-> "none",
                       rule_obj |-> [rule_obj EXCEPT !.parameters = Append(@, param_id)],
                       params_by_id |->
                           IF param_values # EmptyDict /\ param_id \in DOMAIN param_values
                           THEN [store EXCEPT ![param_id].value = param_values[param_id]]
                           ELSE store]

\* The description as _load_rule_yaml stores it.
NormalDescription(description) ==
    Strip(Replace(Replace(Replace(description, "\n", <<" ">>), "<p>", <<>>), "</p>", <<>>))

\* _load_rule_yaml: read the rule.yml, store the description, attach parameters.
_load_rule_yaml(rule_obj, param_values, store) ==
    LET rule_yaml == RuleYaml(rule_obj.rule_dir) IN
    CASE rule_yaml.status = "missing" ->
             [raised |-> "FileNotFoundError", rule_obj |-> rule_obj, params_by_id |-> store]
      [] rule_yaml.status = "unreadable" ->
             [raised |-> "PermissionError", rule_obj |-> rule_obj, params_by_id |-> store]
      [] rule_yaml.status = "invalid" ->
             [raised |-> "ValueError", rule_obj |-> rule_obj, params_by_id |-> store]
      [] OTHER ->
             _get_params_ids(rule_yaml,
                             [rule_obj EXCEPT !.description =
                                  NormalDescription(rule_yaml.description)],
                             param_values, store)

\* The body of load's try block for one rule id.
LoadRule(rule_id, param_values, store) ==
    LET made == _new_rule_obj(rule_id)
    IN IF made.raised # "none"
       THEN [raised |-> made.raised, rule_obj |-> made.rule_obj, params_by_id |-> store]
       ELSE _load_rule_yaml(made.rule_obj, param_values, store)

\* load: ValueError and FileNotFoundError are collected per rule; any other
\* exception leaves load at once.  attempted lists the rule ids the loop reached.
RECURSIVE LoadLoop(_, _, _)
LoadLoop(rules, param_values, st) ==
    IF rules = <<>>
    THEN [st EXCEPT !.outcome = IF Len(st.rule_errors) > 0 THEN "RuntimeError"
                                ELSE "returned"]
    ELSE LET rule_id == Head(rules)
             r == LoadRule(rule_id, param_values, st.params_by_id)
             reached == [st EXCEPT !.attempted = Append(@, rule_id),
                                   !.params_by_id = r.params_by_id]
         IN CASE r.raised = "none" ->
                     LoadLoop(Tail(rules), param_values,
                              [reached EXCEPT !.rule_objs = Append(@, r.rule_obj)])
              [] r.raised = "ValueError" ->
                     LoadLoop(Tail(rules), param_values,
                              [reached EXCEPT !.rule_errors =
                                   Append(@, [text |-> "Could not find rule", rule_id |-> rule_id])])
              [] r.raised = "FileNotFoundError" ->
                     LoadLoop(Tail(rules), param_values,
                              [reached EXCEPT !.rule_errors =
                                   Append(@, [text |-> "Could not load rule", rule_id |-> rule_id])])
              [] OTHER -> [reached EXCEPT !.outcome = r.raised]

load(rules, store) ==
    LET p == _process_rule_ids(rules)
        r == LoadLoop(p.processed_rule_ids, p.params_values,
                      [outcome |-> "running", rule_objs |-> <<>>, rule_errors |-> <<>>,
                       attempted |-> <<>>, params_by_id |-> store])
    IN [r EXCEPT !.rule_objs = IF r.outcome = "returned" THEN @ ELSE <<>>]

\* ParamInfo.default_value of every parameter of every rule, read now.
DefaultsSeen(objs, store) ==
    [i \in DOMAIN objs |->
        [j \in DOMAIN objs[i].parameters |-> store[objs[i].parameters[j]].value]]

NoLoad == [request |-> <<>>, outcome |-> "none", rule_objs |-> <<>>,
           rule_errors |-> <<>>, attempted |-> <<>>]

LoadIdle == last_load = NoLoad

\* A new extractor over the product's parameter files, not yet built.
LoadInit ==
    /\ var_files = ProductVarFiles
    /\ params_by_id = EmptyDict
    /\ ext_pc = "new"
    /\ lookup = NoLookup
    /\ LoadIdle

\* transformer.load(rules), the transformer holding the built extractor
Load ==
    /\ ext_pc = "built"
    /\ \E rules \in Requests : \E r \in {load(rules, params_by_id)} :
            /\ params_by_id' = r.params_by_id
            /\ last_load' = [request |-> rules, outcome |-> r.outcome,
                             rule_objs |-> r.rule_objs, rule_errors |-> r.rule_errors,
                             attempted |-> r.attempted]
    /\ UNCHANGED <<var_files, ext_pc, lookup>>
    /\ UNCHANGED <<gen_vars, tr_vars>>

(***************************************************************************)
(* RulesTransformer: transform                                             *)
(***************************************************************************)

\* Bounds of transform's input: rules in the list, parameters of one rule.
MaxRules == 2
MaxParams == 2

\* The property names imported from trestle.tasks.csv_to_oscal_cd.
RULE_ID == "Rule_Id"
RULE_DESCRIPTION == "Rule_Description"
PARAMETER_ID == "Parameter_Id"
PARAMETER_DESCRIPTION == "Parameter_Description"
PARAMETER_VALUE_DEFAULT == "Parameter_Value_Default"
PARAMETER_VALUE_ALTERNATIVES == "Parameter_Value_Alternatives"

\* str(n) for a natural number: its decimal digits.
RECURSIVE DecimalDigits(_)
DecimalDigits(n) ==
    LET d == <<"0", "1", "2", "3", "4", "5", "6", "7", "8", "9">>[(n % 10) + 1]
    IN IF n < 10 THEN <<d>> ELSE Append(DecimalDigits(n \div 10), d)

\* str.zfill(width)
RECURSIVE ZFill(_, _)
ZFill(s, width) == IF Len(s) >= width THEN s ELSE ZFill(<<"0">> \o s, width)

\* Mutant of get_next_rule_set_id: one manager is kept across the transform()
\* calls, so its numbering goes on from the rules of the calls before.
get_next_rule_set_id_SharedMgr(i, total) ==
    <<"rule_set_">> \o ZFill(DecimalDigits(i + 1 + Len(transform_results) * total),
                             Len(DecimalDigits(i + total)))

\* _RuleSetIdMgr(i, total).get_next_rule_set_id(): the number after i, filled
\* with zeros to the width of i + total.
get_next_rule_set_id(i, total) ==
    <<"rule_set_">> \o ZFill(DecimalDigits(i + 1), Len(DecimalDigits(i + total)))

\* str(dict): the items in order, quoted.
RECURSIVE StrItems(_)
StrItems(d) ==
    IF d = <<>> THEN <<>>
    ELSE <<"'", d[1][1], "': '">> \o d[1][2] \o <<"'">>
         \o (IF Len(d) > 1 THEN <<", ">> ELSE <<>>) \o StrItems(Tail(d))

PyStr(d) == <<"{">> \o StrItems(d) \o <<"}">>

\* add_prop: a Property of the given name and value, carrying the rule set.
add_prop(name, value, ruleset) == [name |-> name, value |-> value, ruleset |-> ruleset]

\* Mutant of _get_params_properties: the default value is emitted before the
\* description.
_get_params_properties_DefaultFirst(ruleset, rule_id, param_info) ==
    << add_prop(PARAMETER_ID, param_info.id, ruleset),
       add_prop(PARAMETER_VALUE_DEFAULT, param_info.value, ruleset),
       add_prop(PARAMETER_DESCRIPTION, param_info.description, ruleset),
       add_prop(PARAMETER_VALUE_ALTERNATIVES, PyStr(param_info.options), ruleset) >>

\* _get_params_properties: id, description, default value, options as a string.
_get_params_properties(ruleset, rule_id, param_info) ==
    << add_prop(PARAMETER_ID, param_info.id, ruleset),
       add_prop(PARAMETER_DESCRIPTION, param_info.description, ruleset),
       add_prop(PARAMETER_VALUE_DEFAULT, param_info.value, ruleset),
       add_prop(PARAMETER_VALUE_ALTERNATIVES, PyStr(param_info.options), ruleset) >>

\* _get_rule_properties: the rule's id and description, then its parameters'.
_get_rule_properties(ruleset, rule_obj, store) ==
    LET RECURSIVE ParamsLoop(_)
        ParamsLoop(params) ==
            IF params = <<>> THEN <<>>
            ELSE _get_params_properties(ruleset, rule_obj.id, store[Head(params)])
                 \o ParamsLoop(Tail(params))
    IN << add_prop(RULE_ID, rule_obj.id, ruleset),
          add_prop(RULE_DESCRIPTION, rule_obj.description, ruleset) >>
       \o ParamsLoop(rule_obj.parameters)

\* transform: the loop over enumerate(rule_objs).
transform(objs, store) ==
    LET RECURSIVE Loop(_)
        Loop(i) ==
            IF i >= Len(objs) THEN <<>>
            ELSE _get_rule_properties(get_next_rule_set_id(i, Len(objs)), objs[i + 1], store)
                 \o Loop(i + 1)
    IN Loop(0)

\* Rule ids and descriptions of the RuleInfo objects handed to transform.
TransformRuleIds == {<<"rule_a">>, <<"rule_b">>}
TransformDescriptions == {<<"text">>}

TransformIdle ==
    /\ tr_pc = "off" /\ rule_objs = <<>> /\ rule_properties = <<>>
    /\ transform_results = <<>>

TransformInit ==
    /\ var_files = ProductVarFiles
    /\ params_by_id = ProductParams
    /\ ext_pc = "built"
    /\ lookup = NoLookup
    /\ tr_pc = "building"
    /\ rule_objs = <<>>
    /\ rule_properties = <<>>
    /\ transform_results = <<>>

\* RuleInfo(rule_id, rule_dir) and add_description, appended to the list.
NewRule ==
    /\ tr_pc = "building"
    /\ Len(rule_objs) < MaxRules
    /\ \E rule_id \in TransformRuleIds, description \in TransformDescriptions :
         rule_objs' = Append(rule_objs,
                             [RuleInfo(rule_id, <<"build/">> \o rule_id)
                                  EXCEPT !.description = description])
    /\ UNCHANGED <<tr_pc, rule_properties, transform_results>>
    /\ UNCHANGED <<gen_vars, ext_vars, load_vars>>

\* RuleInfo.add_parameter on one rule of the list.
AddParameter ==
    /\ tr_pc = "building"
    /\ \E i \in DOMAIN rule_objs, param_id \in DOMAIN params_by_id :
         /\ Len(rule_objs[i].parameters) < MaxParams
         /\ rule_objs' = [rule_objs EXCEPT ![i].parameters = Append(@, param_id)]
    /\ UNCHANGED <<tr_pc, rule_properties, transform_results>>
    /\ UNCHANGED <<gen_vars, ext_vars, load_vars>>

\* transformer.transform(rule_objs); the caller keeps the list it returns and
\* the one the call before returned.
Transform ==
    /\ tr_pc \in {"building", "transformed", "reloaded"}
    /\ \E props \in {transform(rule_objs, params_by_id)} :
         /\ rule_properties' = props
         /\ transform_results' =
                IF transform_results = <<>> THEN <<props>>
                ELSE <<transform_results[Len(transform_results)], props>>
    /\ tr_pc' = "transformed"
    /\ UNCHANGED rule_objs
    /\ UNCHANGED <<gen_vars, ext_vars, load_vars>>

\* The requests of a load() call made between two transform() calls.
ReloadRequests == { <<<<"rule_a">>, <<"var_x", "=", "custom">>>>, <<<<"rule_c">>>> }

\* transformer.load(rules) after a transform() call, its result dropped: what
\* stays of the call is what it wrote into the ParamInfo objects.
Reload ==
    /\ tr_pc \in {"transformed", "reloaded"}
    /\ \E rules \in ReloadRequests : \E r \in {load(rules, params_by_id)} :
         params_by_id' = r.params_by_id
    /\ tr_pc' = "reloaded"
    /\ transform_results' = <<>>
    /\ UNCHANGED <<rule_objs, rule_properties>>
    /\ UNCHANGED <<var_files, ext_pc, lookup>>
    /\ UNCHANGED <<gen_vars, load_vars>>

(***************************************************************************)
(* Specifications: one per component, the other components idle.           *)
(***************************************************************************)

ParamsIdle == params_by_id = EmptyDict

\* main() of build_cd_for_product.py
GenSpecInit == GenInit /\ ExtIdle /\ ParamsIdle /\ LoadIdle /\ TransformIdle
GenSpecNext == Construct \/ CreateCd
GenSpec == GenSpecInit /\ [][GenSpecNext]_vars

\* Building and querying a ParameterExtractor
ExtSpecInit == GenIdle /\ ExtInit /\ LoadIdle /\ TransformIdle
ExtSpecNext == BuildExtractor \/ GetParams
ExtSpec == ExtSpecInit /\ [][ExtSpecNext]_vars

\* load calls on one RulesTransformer
LoadSpecInit == GenIdle /\ LoadInit /\ TransformIdle
LoadSpecNext == BuildExtractor \/ Load
LoadSpec == LoadSpecInit /\ [][LoadSpecNext]_vars

\* transform on a list of RuleInfo
TransformSpecInit == GenIdle /\ LoadIdle /\ TransformInit
TransformSpecNext == NewRule \/ AddParameter \/ Transform \/ Reload
TransformSpec == TransformSpecInit /\ [][TransformSpecNext]_vars

(***************************************************************************)
(* Properties of the component definition generator (GenSpec)              *)
(***************************************************************************)

\* Every node of a forest: the controls or parts and everything nested in them.
RECURSIVE NodesOf(_)
NodesOf(forest) ==
    UNION {{forest[i]} \cup NodesOf(forest[i].parts) : i \in DOMAIN forest}

\* The generator is constructed: resolve_profile_to_controls has built the index.
IndexBuilt == gen_pc \in {"constructed", "written"}

\* C1: once the profile is resolved, profile_controls holds the id of every
\* control and of every part at any depth, and controls_by_label has an entry for
\* the label of every labelled control or part, whether or not the control above
\* it is labelled.
C1_IndexCoversTree ==
    IndexBuilt =>
        \A n \in NodesOf(catalog) :
            /\ n.id \in profile_controls
            /\ n.label # "" => n.label \in DOMAIN controls_by_label

\* C2: every id in profile_controls resolves to itself through
\* get_profile_control_id, also when it is the label of another node.
C2_KnownIdResolvesToItself ==
    IndexBuilt =>
        \A x \in profile_controls :
            get_profile_control_id(x, controls_by_label, profile_controls) = x

\* A name resolves against the index: it is a label or an id of it.
Resolves(name) == name \in DOMAIN controls_by_label \/ name \in profile_controls

\* The id a resolving name stands for: the labelled node's, else the name itself.
ResolvedId(name) ==
    IF name \in DOMAIN controls_by_label THEN controls_by_label[name] ELSE name

\* C8: the implemented requirements are, in the policy's order, exactly one per
\* control that resolves (as a label or an id) and none for the others; an
\* unresolved control raises nothing and the controls after it are still
\* processed; each record holds the resolved id and the control's notes.
C8_OneRequirementPerResolvedControl ==
    (gen_pc \in {"written", "create_error"} /\ policy_id \in DOMAIN policies) =>
        LET pol == policies[policy_id]
            resolved == {i \in DOMAIN pol : Resolves(pol[i].id)}
            Rank(i) == Cardinality({j \in resolved : j <= i})
        IN /\ gen_pc = "written"
           /\ Len(implemented_requirements) = Cardinality(resolved)
           /\ \A i \in resolved :
                  implemented_requirements[Rank(i)] =
                      [control_id |-> ResolvedId(pol[i].id), description |-> pol[i].notes]
           /\ Len(warnings) = Len(pol) - Cardinality(resolved)

\* C8's case: a control that does not resolve comes before one that resolves
\* through a label to another id, and create_cd has run.
C8_Witness ==
    /\ gen_pc = "written"
    /\ \E i, j \in DOMAIN policies[policy_id] :
         /\ i < j
         /\ ~Resolves(policies[policy_id][i].id)
         /\ Resolves(policies[policy_id][j].id)
         /\ ResolvedId(policies[policy_id][j].id) # policies[policy_id][j].id
    /\ Len(implemented_requirements) = 1

\* C9: with a policy id the controls source does not know, the run ends in the
\* constructor's error: create_cd and get_control_implementation are never
\* reached and no implemented requirement or component is built.
C9_UnknownPolicyFailsAtConstruction ==
    control \notin DOMAIN policies =>
        /\ gen_pc \in {"main", "init_error"}
        /\ implemented_requirements = <<>>
        /\ components = <<>>
        /\ warnings = <<>>

\* C9's case: the constructor has failed on an unknown policy id, the profile
\* being resolved and the policy the source does know holding controls.
C9_Witness ==
    /\ gen_pc = "init_error"
    /\ control \notin DOMAIN policies
    /\ profile_controls # {}
    /\ policies[KnownPolicy] # <<>>

\* The names get_profile_control_id may be asked for: the ids a policy lists,
\* the labels and the ids of the catalog.
ControlNames ==
    PolicyControlIds \cup Labels \cup {IdNames[i] : i \in DOMAIN IdNames}

\* C13: every value of controls_by_label is in profile_controls, which holds
\* only ids of the resolved profile; so get_profile_control_id returns, for any
\* name, None or an id in profile_controls, and the control_id of every
\* implemented requirement is an id of the resolved profile.
C13_LabelsAndRequirementsPointIntoProfile ==
    /\ \A l \in DOMAIN controls_by_label : controls_by_label[l] \in profile_controls
    /\ profile_controls \subseteq {n.id : n \in NodesOf(catalog)}
    /\ \A name \in ControlNames :
           get_profile_control_id(name, controls_by_label, profile_controls)
               \in profile_controls \cup {None}
    /\ \A i \in DOMAIN implemented_requirements :
           /\ implemented_requirements[i].control_id \in profile_controls
           /\ implemented_requirements[i].control_id \in {n.id : n \in NodesOf(catalog)}

\* C13's case: create_cd has emitted a requirement for a policy control that
\* resolved, through a label, to the id of a part nested in a control.
C13_Witness ==
    /\ gen_pc = "written"
    /\ \E i \in DOMAIN implemented_requirements, k \in DOMAIN catalog :
         /\ implemented_requirements[i].control_id \notin PolicyControlIds
         /\ implemented_requirements[i].control_id
                \in {n.id : n \in NodesOf(catalog[k].parts)}
         /\ \E l \in DOMAIN controls_by_label :
                controls_by_label[l] = implemented_requirements[i].control_id

(***************************************************************************)
(* Properties of RulesTransformer.load (LoadSpec)                          *)
(***************************************************************************)

Range(q) == {q[i] : i \in DOMAIN q}

\* An entry of a request is a key=value entry when it holds an "=".
IsOverride(entry) == "=" \in Range(entry)
FirstEq(entry) == CHOOSE i \in DOMAIN entry :
                      entry[i] = "=" /\ \A j \in 1..(i - 1) : entry[j] # "="
OverrideKey(entry) == SubSeq(entry, 1, FirstEq(entry) - 1)
OverrideValue(entry) == SubSeq(entry, FirstEq(entry) + 1, Len(entry))

\* The plain rule ids of a request, in request order.
PlainIds(request) == SelectSeq(request, LAMBDA e : ~IsOverride(e))
Overrides(request) == SelectSeq(request, LAMBDA e : IsOverride(e))

\* The directory a rule id stands for, index first.
DirOf(rule_id) ==
    IF rule_id \in DOMAIN rule_json THEN rule_json[rule_id].dir
    ELSE rules_dirs_for_product[rule_id]

\* A rule id fails: it is in neither the index nor the scan, its definition file
\* is missing, unreadable or malformed, or the parameter it names is not in the
\* Parameter Repository.
Fails(rule_id) ==
    \/ rule_id \notin (DOMAIN rule_json) \cup (DOMAIN rules_dirs_for_product)
    \/ RuleYaml(DirOf(rule_id)).status # "ok"
    \/ /\ RuleYaml(DirOf(rule_id)).templated
       /\ \E i \in DOMAIN RuleYaml(DirOf(rule_id)).template_vars :
            /\ RuleYaml(DirOf(rule_id)).template_vars[i][1] = XCCDF_VARIABLE
            /\ RuleYaml(DirOf(rule_id)).template_vars[i][2] \notin DOMAIN ProductParams

Loaded == last_load.outcome # "none"

\* C3: load attempts every plain rule id; if at least one rule fails, it raises
\* one aggregate error that names every failing rule id, and it returns a list
\* only when no rule failed.
C3_LoadAggregatesEveryFailure ==
    Loaded =>
        LET plain == Range(PlainIds(last_load.request))
            failing == {e \in plain : Fails(e)}
        IN /\ plain \subseteq Range(last_load.attempted)
           /\ failing # {} =>
                  /\ last_load.outcome = "RuntimeError"
                  /\ failing \subseteq {err.rule_id : err \in Range(last_load.rule_errors)}
           /\ last_load.outcome = "returned" => failing = {}

\* C4: a request of k plain rule ids that all load and m key=value entries (of
\* distinct keys, the value being any text) returns k RuleInfo objects, one per
\* plain id in request order, and every returned rule whose parameter is an
\* override's key reports the override's value as that parameter's default, in
\* the object and in the property transform emits for it.
C4_PlainIdsReturnedOverridesApplied ==
    (/\ Loaded
     /\ \A e \in Range(PlainIds(last_load.request)) : ~Fails(e)
     /\ \A i, j \in DOMAIN Overrides(last_load.request) :
            OverrideKey(Overrides(last_load.request)[i])
                = OverrideKey(Overrides(last_load.request)[j]) => i = j)
    =>
        LET plain == PlainIds(last_load.request)
            overrides == Range(Overrides(last_load.request))
            objs == last_load.rule_objs
        IN /\ last_load.outcome = "returned"
           /\ Len(objs) = Len(plain)
           /\ \A i \in DOMAIN objs : objs[i].id = plain[i]
           /\ \A i \in DOMAIN objs : \A j \in DOMAIN objs[i].parameters :
                  \A o \in overrides :
                      objs[i].parameters[j] = OverrideKey(o) =>
                          /\ params_by_id[objs[i].parameters[j]].value = OverrideValue(o)
                          /\ \E k \in DOMAIN transform(objs, params_by_id) :
                                 /\ transform(objs, params_by_id)[k].name = PARAMETER_VALUE_DEFAULT
                                 /\ transform(objs, params_by_id)[k].ruleset
                                        = get_next_rule_set_id(i - 1, Len(objs))
                                 /\ transform(objs, params_by_id)[k].value = OverrideValue(o)

\* The default value the product's parameter file gives a parameter.
FileDefault(param_id) ==
    LET i == CHOOSE k \in DOMAIN ProductVarFiles :
                 ProductVarFiles[k].name = param_id \o <<VAR_FILE_EXTENSION>>
    IN Get(ProductVarFiles[i].options, "default")

\* C5: an override lives for its load call only: after any load calls the
\* Parameter Repository still holds each parameter's default from its file, and a
\* load that carries no override attaches the file's default.
C5_OverrideScopedToItsLoad ==
    ext_pc = "built" =>
        /\ \A p \in DOMAIN params_by_id : params_by_id[p].value = FileDefault(p)
        /\ (last_load.outcome = "returned" /\ Overrides(last_load.request) = <<>>) =>
               \A i \in DOMAIN last_load.rule_objs :
                   \A j \in DOMAIN last_load.rule_objs[i].parameters :
                       DefaultsSeen(last_load.rule_objs, params_by_id)[i][j]
                           = FileDefault(last_load.rule_objs[i].parameters[j])

\* C6: every RuleInfo of a returned list has a non-empty description: a rule
\* whose description is empty once normalized makes load raise.
C6_ReturnedRulesHaveDescription ==
    last_load.outcome = "returned" =>
        \A i \in DOMAIN last_load.rule_objs : last_load.rule_objs[i].description # <<>>

BlockSize(rule_obj) == 2 + 4 * Len(rule_obj.parameters)

\* The number of properties before the block of rule i.
RECURSIVE BlockStart(_, _)
BlockStart(objs, i) ==
    IF i = 1 THEN 0 ELSE BlockStart(objs, i - 1) + BlockSize(objs[i - 1])

\* C7: transform returns one block per rule, in rule order; the block of a rule
\* with p parameters holds 2 + 4 * p properties: the rule's id, its description,
\* then per parameter in attachment order its id, description, default value and
\* options as a string; every property of the block carries the rule-set id
\* assigned to that rule.
C7_BlocksInRuleAndParameterOrder ==
    tr_pc = "transformed" =>
        LET n == Len(rule_objs)
            props == rule_properties
            NameValue(k) == <<props[k].name, props[k].value>>
        IN /\ Len(props) = IF n = 0 THEN 0
                           ELSE BlockStart(rule_objs, n) + BlockSize(rule_objs[n])
           /\ \A i \in 1..n :
                LET o == BlockStart(rule_objs, i)
                    rule == rule_objs[i]
                IN /\ NameValue(o + 1) = <<RULE_ID, rule.id>>
                   /\ NameValue(o + 2) = <<RULE_DESCRIPTION, rule.description>>
                   /\ \A j \in DOMAIN rule.parameters :
                        LET q == o + 2 + 4 * (j - 1)
                            param == params_by_id[rule.parameters[j]]
                        IN /\ NameValue(q + 1) = <<PARAMETER_ID, param.id>>
                           /\ NameValue(q + 2) = <<PARAMETER_DESCRIPTION, param.description>>
                           /\ NameValue(q + 3) = <<PARAMETER_VALUE_DEFAULT, param.value>>
                           /\ NameValue(q + 4) =
                                  <<PARAMETER_VALUE_ALTERNATIVES, PyStr(param.options)>>
                   /\ \A k \in (o + 1)..(o + BlockSize(rule)) :
                        props[k].ruleset = get_next_rule_set_id(i - 1, n)

\* C7's case: transform has run on two rules, the first with two different
\* parameters and the second with none.
C7_Witness ==
    /\ tr_pc = "transformed"
    /\ Len(rule_objs) = 2
    /\ Len(rule_objs[1].parameters) = 2
    /\ rule_objs[1].parameters[1] # rule_objs[1].parameters[2]
    /\ rule_objs[2].parameters = <<>>
    /\ Len(rule_properties) = 12

\* A list of n rules that have nothing of the transformed list but its length.
ReferenceList(n) == [k \in 1..n |-> RuleInfo(<<"other">>, <<"build/", "other">>)]

Loadable(file) == file.status = "ok" /\ HasKey(file.options, "default")

\* The file name with its extension stripped from the end.
SuffixStripped(name) == SubSeq(name, 1, Len(name) - 1)

\* C10: building the repository never aborts on a file that cannot be loaded;
\* every file that loads is stored under its suffix-stripped name with its
\* options["default"] as default value and its whole option map as options;
\* get_params_for_id returns the stored entry and fails with a not-found error
\* for an id without one.
C10_BuildSkipsBadFilesAndStoresTheRest ==
    ext_pc # "new" =>
        LET files == {f \in Range(var_files) : EndsWith(f.name, VAR_FILE_EXTENSION)}
        IN /\ ext_pc = "built"
           /\ \A f \in files :
                Loadable(f) =>
                    /\ SuffixStripped(f.name) \in DOMAIN params_by_id
                    /\ params_by_id[SuffixStripped(f.name)].value = Get(f.options, "default")
                    /\ params_by_id[SuffixStripped(f.name)].options = f.options
           /\ lookup # NoLookup =>
                IF \E f \in files : Loadable(f) /\ SuffixStripped(f.name) = lookup.param_id
                THEN lookup.raised = "none" /\ lookup.param = params_by_id[lookup.param_id]
                ELSE lookup.raised = "ValueError"

====
